---- MODULE Spec2Model ----
(***************************************************************************)
(* Model of the Snowflake UDF resource: the identifier codec               *)
(* (pkg/resources/udf.go), the SQL statement builder (pkg/snowflake/udf.go)*)
(* and the CRUD entry points that glue them to the database.               *)
(*                                                                         *)
(* Strings are sequences of one-character strings, so that quoting,        *)
(* trimming and escaping are computed character by character.              *)
(***************************************************************************)
EXTENDS Integers, Sequences, FiniteSets, TLC

VARIABLES
    si,         \* codec: the udfID value (DatabaseName, SchemaName, Name)
    stringID,   \* codec: the identifier string handed to udfIDFromString
    res,        \* codec: result of the last udfIDFromString call
    cpc,        \* codec: "init", "encoded" (after String) or "decoded"
    vb,         \* builder: the UdfBuilder fields
    q,          \* builder: statement returned by the last render call
    qerr,       \* builder: TRUE iff the last render call returned an error
    op,         \* builder / resource: name of the last operation
    opArg,      \* builder: string argument of the last operation
    d,          \* resource: the schema.ResourceData (id and attributes)
    trace,      \* resource: render / database events of the last invocation
    ret         \* resource: "nil" or the kind of error the invocation returned

vars == <<si, stringID, res, cpc, vb, q, qerr, op, opArg, d, trace, ret>>

codecVars == <<si, stringID, res, cpc>>
builderVars == <<vb, q, qerr, opArg>>
resourceVars == <<d, trace, ret>>

(***************************************************************************)
(* Bounds                                                                  *)
(***************************************************************************)
MaxFieldLen == 2    \* longest identifier field given to the codec
MaxRawLen == 4      \* longest arbitrary string given to udfIDFromString
MaxArgs == 2        \* longest argument list given to the builder
MaxImportLen == 5   \* longest identifier a resource is imported with

(***************************************************************************)
(* Characters                                                              *)
(***************************************************************************)
DQ == "\""
SQ == "'"
BS == "\\"
NL == "\n"
CR == "\r"
TAB == "\t"
SP == " "

StrsUpTo(A, n) == UNION {[1..k -> A] : k \in 0..n}

Contains(s, c) == \E i \in 1..Len(s) : s[i] = c

(***************************************************************************)
(* Identifier codec                                                        *)
(***************************************************************************)
pipeIDDelimiter == "|"

IsSpace(c) == c \in {SP, NL, CR, TAB}

\* csv.Writer.fieldNeedsQuotes with Comma = '|'
fieldNeedsQuotes(field) ==
    IF field = <<>> THEN FALSE
    ELSE IF field = <<BS, ".">> THEN TRUE
    ELSE IF \E i \in 1..Len(field) : field[i] \in {NL, CR, DQ, pipeIDDelimiter} THEN TRUE
    ELSE IsSpace(field[1])

RECURSIVE quoteField(_)
quoteField(field) ==
    IF field = <<>> THEN <<>>
    ELSE (IF Head(field) = DQ THEN <<DQ, DQ>> ELSE <<Head(field)>>)
         \o quoteField(Tail(field))

writeField(field) ==
    IF fieldNeedsQuotes(field) THEN <<DQ>> \o quoteField(field) \o <<DQ>>
    ELSE field

\* csv.Writer.WriteAll of one record: fields joined by the comma, then "\n"
RECURSIVE writeFields(_)
writeFields(record) ==
    IF record = <<>> THEN <<>>
    ELSE IF Len(record) = 1 THEN writeField(record[1])
    ELSE writeField(record[1]) \o <<pipeIDDelimiter>> \o writeFields(Tail(record))

WriteAll(record) == writeFields(record) \o <<NL>>

RECURSIVE TrimLeft(_)
TrimLeft(s) == IF s # <<>> /\ IsSpace(Head(s)) THEN TrimLeft(Tail(s)) ELSE s

RECURSIVE TrimRight(_)
TrimRight(s) ==
    IF s # <<>> /\ IsSpace(s[Len(s)]) THEN TrimRight(SubSeq(s, 1, Len(s) - 1)) ELSE s

TrimSpace(s) == TrimRight(TrimLeft(s))

\* (si *udfID) String(): never fails, the buffer write cannot fail
String(id) ==
    [err |-> FALSE,
     str |-> TrimSpace(WriteAll(<<id.DatabaseName, id.SchemaName, id.Name>>))]

CsvErr == [err |-> TRUE, lines |-> <<>>]

\* csv.Reader.ReadAll with Comma = '|', LazyQuotes = false, FieldsPerRecord = 0
\* mode: "line" at the start of a record, "field" at the start of a field,
\* "bare" inside an unquoted field, "quoted" inside a quoted field,
\* "quote" right after a double quote inside a quoted field.
RECURSIVE readRecord(_, _, _, _, _, _)
readRecord(s, i, mode, field, rec, recs) ==
    LET eof == i > Len(s)
        c == IF eof THEN "" ELSE s[i]
        endField == Append(rec, field)
        endRec == Append(recs, endField)
        countOk == recs = <<>> \/ Len(endField) = Len(recs[1])
    IN  CASE mode = "line" ->
               IF eof THEN [err |-> FALSE, lines |-> recs]
               ELSE IF c = NL THEN readRecord(s, i + 1, "line", <<>>, <<>>, recs)
               ELSE readRecord(s, i, "field", <<>>, <<>>, recs)
          [] mode = "field" ->
               IF ~eof /\ c = DQ THEN readRecord(s, i + 1, "quoted", <<>>, rec, recs)
               ELSE readRecord(s, i, "bare", <<>>, rec, recs)
          [] mode = "bare" ->
               IF eof THEN (IF countOk THEN [err |-> FALSE, lines |-> endRec] ELSE CsvErr)
               ELSE IF c = pipeIDDelimiter THEN readRecord(s, i + 1, "field", <<>>, endField, recs)
               ELSE IF c = NL
                    THEN (IF countOk THEN readRecord(s, i + 1, "line", <<>>, <<>>, endRec)
                          ELSE CsvErr)
               ELSE IF c = DQ THEN CsvErr
               ELSE readRecord(s, i + 1, "bare", Append(field, c), rec, recs)
          [] mode = "quoted" ->
               IF eof THEN CsvErr
               ELSE IF c = DQ THEN readRecord(s, i + 1, "quote", field, rec, recs)
               ELSE readRecord(s, i + 1, "quoted", Append(field, c), rec, recs)
          [] mode = "quote" ->
               IF eof THEN (IF countOk THEN [err |-> FALSE, lines |-> endRec] ELSE CsvErr)
               ELSE IF c = DQ THEN readRecord(s, i + 1, "quoted", Append(field, DQ), rec, recs)
               ELSE IF c = pipeIDDelimiter THEN readRecord(s, i + 1, "field", <<>>, endField, recs)
               ELSE IF c = NL
                    THEN (IF countOk THEN readRecord(s, i + 1, "line", <<>>, <<>>, endRec)
                          ELSE CsvErr)
               ELSE CsvErr

ReadAll(s) == readRecord(s, 1, "line", <<>>, <<>>, <<>>)

NoID == [DatabaseName |-> <<>>, SchemaName |-> <<>>, Name |-> <<>>]

\* udfIDFromString that accepts a record of three or more fields
udfIDFromString_Mut(s) ==
    LET r == ReadAll(s)
    IN  IF r.err THEN [err |-> TRUE, id |-> NoID]
        ELSE IF Len(r.lines) # 1 THEN [err |-> TRUE, id |-> NoID]
        ELSE IF Len(r.lines[1]) < 3 THEN [err |-> TRUE, id |-> NoID]
        ELSE [err |-> FALSE,
              id |-> [DatabaseName |-> r.lines[1][1],
                      SchemaName |-> r.lines[1][2],
                      Name |-> r.lines[1][3]]]

\* udfIDFromString: err is TRUE and id is NoID (nil) on every failure
udfIDFromString(s) ==
    LET r == ReadAll(s)
    IN  IF r.err THEN [err |-> TRUE, id |-> NoID]
        ELSE IF Len(r.lines) # 1 THEN [err |-> TRUE, id |-> NoID]
        ELSE IF Len(r.lines[1]) # 3 THEN [err |-> TRUE, id |-> NoID]
        ELSE [err |-> FALSE,
              id |-> [DatabaseName |-> r.lines[1][1],
                      SchemaName |-> r.lines[1][2],
                      Name |-> r.lines[1][3]]]

(***************************************************************************)
(* Statement builder                                                       *)
(***************************************************************************)
kwCreate == <<"C", "R", "E", "A", "T", "E">>
kwOrReplace == <<SP, "O", "R", SP, "R", "E", "P", "L", "A", "C", "E">>
kwSecure == <<SP, "S", "E", "C", "U", "R", "E">>
kwFunction == <<SP, "F", "U", "N", "C", "T", "I", "O", "N", SP>>
kwReturns == <<SP, "R", "E", "T", "U", "R", "N", "S", SP>>
kwLanguage == <<SP, "L", "A", "N", "G", "U", "A", "G", "E", SP>>
kwAsOpen == <<SP, "A", "S", SP, "$", "$", SP>>
kwAsClose == <<SP, "$", "$">>
kwAlterFunction == <<"A", "L", "T", "E", "R", SP, "F", "U", "N", "C", "T", "I", "O", "N", SP>>
kwRenameTo == <<SP, "R", "E", "N", "A", "M", "E", SP, "T", "O", SP>>
kwSetSecure == <<SP, "S", "E", "T", SP, "S", "E", "C", "U", "R", "E">>
kwUnsetSecure == <<SP, "U", "N", "S", "E", "T", SP, "S", "E", "C", "U", "R", "E">>
kwShowLike == <<"S", "H", "O", "W", SP, "F", "U", "N", "C", "T", "I", "O", "N", "S", SP, "L", "I", "K", "E", SP, SQ>>
kwInSchema == <<SQ, SP, "I", "N", SP, "S", "C", "H", "E", "M", "A", SP>>
kwDropFunction == <<"D", "R", "O", "P", SP, "F", "U", "N", "C", "T", "I", "O", "N", SP>>
kwCommaSpace == <<",", SP>>

\* EscapeString: every backslash and quote character is prefixed by a backslash
RECURSIVE EscapeString(_)
EscapeString(in) ==
    IF in = <<>> THEN <<>>
    ELSE (IF Head(in) \in {BS, SQ, DQ} THEN <<BS, Head(in)>> ELSE <<Head(in)>>)
         \o EscapeString(Tail(in))

\* strings.Join(elems, sep)
RECURSIVE Join(_, _)
Join(elems, sep) ==
    IF elems = <<>> THEN <<>>
    ELSE IF Len(elems) = 1 THEN elems[1]
    ELSE elems[1] \o sep \o Join(Tail(elems), sep)

getArgumentDefinition(c) ==
    <<DQ>> \o EscapeString(c.name) \o <<DQ, SP>> \o EscapeString(c._type)

getArgumentTypeDefinition(c) == EscapeString(c._type)

getArgumentDefinitions(args) ==
    LET definitions == [i \in 1..Len(args) |-> getArgumentDefinition(args[i])]
    IN  <<"(">> \o Join(definitions, kwCommaSpace) \o <<")">>

\* getArgumentTypesDefinitions that prepends each definition instead of appending it
getArgumentTypesDefinitions_Mut(args) ==
    LET definitions ==
            [i \in 1..Len(args) |-> getArgumentTypeDefinition(args[Len(args) + 1 - i])]
    IN  <<"(">> \o Join(definitions, kwCommaSpace) \o <<")">>

getArgumentTypesDefinitions(args) ==
    LET definitions == [i \in 1..Len(args) |-> getArgumentTypeDefinition(args[i])]
    IN  <<"(">> \o Join(definitions, kwCommaSpace) \o <<")">>

Fail == [err |-> TRUE, str |-> <<>>]
Ok(s) == [err |-> FALSE, str |-> s]

\* Udf(name): a builder with only the name set
Udf(name) ==
    [name |-> name, db |-> <<>>, schema |-> <<>>, replace |-> FALSE,
     secure |-> FALSE, language |-> <<>>, returnType |-> <<>>,
     arguments |-> <<>>, body |-> <<>>]

\* QualifiedName that fails only when both the database and the schema are empty
QualifiedName_Mut(b) ==
    IF b.db = <<>> /\ b.schema = <<>> THEN Fail
    ELSE Ok(<<DQ>> \o b.db \o <<DQ, ".", DQ>> \o b.schema \o <<DQ, ".", DQ>>
            \o b.name \o <<DQ>>)

QualifiedName(b) ==
    IF b.db = <<>> \/ b.schema = <<>> THEN Fail
    ELSE Ok(<<DQ>> \o b.db \o <<DQ, ".", DQ>> \o b.schema \o <<DQ, ".", DQ>>
            \o b.name \o <<DQ>>)

\* Create that writes the LANGUAGE clause before the RETURNS clause
Create_Mut(b) ==
    LET q1 == kwCreate
        q2 == IF b.replace THEN q1 \o kwOrReplace ELSE q1
        q3 == IF b.secure THEN q2 \o kwSecure ELSE q2
        qn == QualifiedName(b)
        q4 == q3 \o kwFunction \o qn.str
        q5 == q4 \o <<SP>> \o getArgumentDefinitions(b.arguments)
        q6 == IF b.language # <<>>
              THEN q5 \o kwLanguage \o EscapeString(b.language) ELSE q5
        q7 == IF b.returnType # <<>>
              THEN q6 \o kwReturns \o EscapeString(b.returnType) ELSE q6
    IN  IF qn.err THEN Fail
        ELSE Ok(q7 \o kwAsOpen \o b.body \o kwAsClose)

Create(b) ==
    LET q1 == kwCreate
        q2 == IF b.replace THEN q1 \o kwOrReplace ELSE q1
        q3 == IF b.secure THEN q2 \o kwSecure ELSE q2
        qn == QualifiedName(b)
        q4 == q3 \o kwFunction \o qn.str
        q5 == q4 \o <<SP>> \o getArgumentDefinitions(b.arguments)
        q6 == IF b.returnType # <<>>
              THEN q5 \o kwReturns \o EscapeString(b.returnType) ELSE q5
        q7 == IF b.language # <<>>
              THEN q6 \o kwLanguage \o EscapeString(b.language) ELSE q6
    IN  IF qn.err THEN Fail
        ELSE Ok(q7 \o kwAsOpen \o b.body \o kwAsClose)

\* Rename that computes the new qualified name without storing the new name
Rename_Mut(b, newName) ==
    LET oldName == QualifiedName(b)
        qn == QualifiedName([b EXCEPT !.name = newName])
        dataTypes == getArgumentTypesDefinitions(b.arguments)
    IN  IF oldName.err THEN [err |-> TRUE, str |-> <<>>, vb |-> b]
        ELSE IF qn.err THEN [err |-> TRUE, str |-> <<>>, vb |-> b]
        ELSE [err |-> FALSE,
              str |-> kwAlterFunction \o oldName.str \o <<SP>> \o dataTypes
                      \o kwRenameTo \o qn.str,
              vb |-> b]

\* Rename also returns the builder, whose name it overwrites
Rename(b, newName) ==
    LET oldName == QualifiedName(b)
        nb == [b EXCEPT !.name = newName]
        qn == QualifiedName(nb)
        dataTypes == getArgumentTypesDefinitions(nb.arguments)
    IN  IF oldName.err THEN [err |-> TRUE, str |-> <<>>, vb |-> b]
        ELSE IF qn.err THEN [err |-> TRUE, str |-> <<>>, vb |-> nb]
        ELSE [err |-> FALSE,
              str |-> kwAlterFunction \o oldName.str \o <<SP>> \o dataTypes
                      \o kwRenameTo \o qn.str,
              vb |-> nb]

Secure(b) ==
    LET qn == QualifiedName(b)
        dataTypes == getArgumentTypesDefinitions(b.arguments)
    IN  IF qn.err THEN Fail
        ELSE Ok(kwAlterFunction \o qn.str \o <<SP>> \o dataTypes \o kwSetSecure)

\* Unsecure that renders no signature clause, as the builder of a view does
Unsecure_NoSignature(b) ==
    LET qn == QualifiedName(b)
    IN  IF qn.err THEN Fail
        ELSE Ok(kwAlterFunction \o qn.str \o kwUnsetSecure)

Unsecure(b) ==
    LET qn == QualifiedName(b)
        dataTypes == getArgumentTypesDefinitions(b.arguments)
    IN  IF qn.err THEN Fail
        ELSE Ok(kwAlterFunction \o qn.str \o <<SP>> \o dataTypes \o kwUnsetSecure)

\* Show that escapes the name like the other statements escape their values
Show_Escaped(b) ==
    kwShowLike \o EscapeString(b.name) \o kwInSchema \o <<DQ>> \o b.db
    \o <<DQ, ".", DQ>> \o b.schema \o <<DQ>>

Show(b) ==
    kwShowLike \o b.name \o kwInSchema \o <<DQ>> \o b.db \o <<DQ, ".", DQ>>
    \o b.schema \o <<DQ>>

Drop(b) ==
    LET qn == QualifiedName(b)
        dataTypes == getArgumentTypesDefinitions(b.arguments)
    IN  IF qn.err THEN Fail
        ELSE Ok(kwDropFunction \o qn.str \o <<SP>> \o dataTypes)

(***************************************************************************)
(* Values left untouched by a specification that does not use them         *)
(***************************************************************************)
NoRes == [err |-> FALSE, id |-> NoID]
NoData ==
    [id |-> <<>>, name |-> <<>>, database |-> <<>>, schema |-> <<>>,
     or_replace |-> FALSE, is_secure |-> FALSE, return_type |-> <<>>,
     language |-> <<>>, argument |-> <<>>, body |-> <<>>]

CodecIdle == si = NoID /\ stringID = <<>> /\ res = NoRes /\ cpc = "init"
BuilderIdle == vb = Udf(<<>>) /\ q = <<>> /\ qerr = FALSE /\ opArg = <<>>
ResourceIdle == d = NoData /\ trace = <<>> /\ ret = "nil"

(***************************************************************************)
(* Specification of the identifier codec                                   *)
(***************************************************************************)
FieldChars == {"a", SP, DQ, pipeIDDelimiter}
RawChars == {"a", SP, DQ, pipeIDDelimiter, NL}

FieldValues == StrsUpTo(FieldChars, MaxFieldLen)

IDs == [DatabaseName : FieldValues, SchemaName : FieldValues, Name : FieldValues]

\* the two malformed identifiers named by the specification, and every short string
RawIDs ==
    StrsUpTo(RawChars, MaxRawLen)
    \cup {<<"a", "|", "b">>, <<"a", "|", "b", "|", "c", "|", "d">>}

CodecInit ==
    /\ \/ si \in IDs /\ stringID = <<>>
       \/ si = NoID /\ stringID \in RawIDs
    /\ res = NoRes
    /\ cpc = "init"
    /\ op = "none"
    /\ BuilderIdle
    /\ ResourceIdle

\* si.String()
StringStep ==
    /\ cpc = "init"
    /\ stringID' = String(si).str
    /\ cpc' = "encoded"
    /\ op' = "String"
    /\ UNCHANGED <<si, res, builderVars, resourceVars>>

\* udfIDFromString(stringID), on a given string or on the output of String()
FromStringStep ==
    /\ cpc \in {"init", "encoded"}
    /\ res' = udfIDFromString(stringID)
    /\ cpc' = IF cpc = "encoded" THEN "roundtrip" ELSE "decoded"
    /\ op' = "udfIDFromString"
    /\ UNCHANGED <<si, stringID, builderVars, resourceVars>>

CodecNext == StringStep \/ FromStringStep

CodecSpec == CodecInit /\ [][CodecNext]_vars

NoDelimiter(id) ==
    /\ ~Contains(id.DatabaseName, pipeIDDelimiter)
    /\ ~Contains(id.SchemaName, pipeIDDelimiter)
    /\ ~Contains(id.Name, pipeIDDelimiter)

\* C1: for every triple whose fields do not contain '|', decoding the string
\* produced by String() succeeds and returns the same three field values.
C1_RoundTrip ==
    (cpc = "roundtrip" /\ NoDelimiter(si)) => (~res.err /\ res.id = si)

CountOf(s, c) == Cardinality({i \in 1..Len(s) : s[i] = c})

\* C2: udfIDFromString fails, returning no identifier, unless the input parses
\* as exactly one record of exactly three fields; "a|b" and "a|b|c|d" fail.
C2_DecodeErrors ==
    cpc \in {"decoded", "roundtrip"} =>
        LET r == ReadAll(stringID)
            wellFormed == ~r.err /\ Len(r.lines) = 1 /\ Len(r.lines[1]) = 3
        IN  /\ res.err <=> ~wellFormed
            /\ res.err => res.id = NoID
            /\ ~res.err => <<res.id.DatabaseName, res.id.SchemaName, res.id.Name>> = r.lines[1]
            /\ stringID \in {<<"a", "|", "b">>, <<"a", "|", "b", "|", "c", "|", "d">>} => res.err
            /\ (~Contains(stringID, DQ) /\ ~Contains(stringID, NL))
                  => (res.err <=> CountOf(stringID, pipeIDDelimiter) # 2)

C2_Witness ==
    /\ cpc = "decoded"
    /\ stringID = <<"a", "|", "b", "|", "c", "|", "d">>
    /\ res.err

(***************************************************************************)
(* Specification of the statement builder                                  *)
(***************************************************************************)
CtorNames == {<<>>, <<"f">>, <<"f", DQ>>}
RenameNames == {<<"g">>, <<"h">>}
DBValues == {<<>>, <<"d">>}
SchemaValues == {<<>>, <<"s">>}
LanguageValues == {<<>>, <<"j">>}
ReturnTypeValues == {<<>>, <<"V">>}
BodyValues == {<<>>, <<"b">>}
ArgPool ==
    {[name |-> <<"x">>, _type |-> <<"T">>],
     [name |-> <<"y", DQ>>, _type |-> <<"U", SQ>>]}
ArgLists == StrsUpTo(ArgPool, MaxArgs)

RenderOps == {"QualifiedName", "Create", "Rename", "Secure", "Unsecure", "Drop"}

BuilderInit ==
    /\ \E name \in CtorNames : vb = Udf(name)
    /\ q = <<>>
    /\ qerr = FALSE
    /\ op = "Udf"
    /\ opArg = <<>>
    /\ CodecIdle
    /\ ResourceIdle

\* a setter returns the builder: no statement, no error
Setter(name, arg, b) ==
    /\ vb' = b
    /\ q' = <<>>
    /\ qerr' = FALSE
    /\ op' = name
    /\ opArg' = arg
    /\ UNCHANGED <<codecVars, resourceVars>>

\* a render call returns a statement or an error
Rendered(name, arg, r, b) ==
    /\ vb' = b
    /\ q' = r.str
    /\ qerr' = r.err
    /\ op' = name
    /\ opArg' = arg
    /\ UNCHANGED <<codecVars, resourceVars>>

UdfCall == \E name \in CtorNames : Setter("Udf", name, Udf(name))

WithLanguage == \E c \in LanguageValues : Setter("WithLanguage", c, [vb EXCEPT !.language = c])

WithDB == \E db \in DBValues : Setter("WithDB", db, [vb EXCEPT !.db = db])

WithArguments ==
    \E args \in ArgLists : Setter("WithArguments", <<>>, [vb EXCEPT !.arguments = args])

WithReplace == Setter("WithReplace", <<>>, [vb EXCEPT !.replace = TRUE])

WithSecure == Setter("WithSecure", <<>>, [vb EXCEPT !.secure = TRUE])

WithSchema == \E s \in SchemaValues : Setter("WithSchema", s, [vb EXCEPT !.schema = s])

WithReturnType ==
    \E s \in ReturnTypeValues : Setter("WithReturnType", s, [vb EXCEPT !.returnType = s])

WithBody == \E s \in BodyValues : Setter("WithBody", s, [vb EXCEPT !.body = s])

QualifiedNameCall == Rendered("QualifiedName", <<>>, QualifiedName(vb), vb)

CreateCall == Rendered("Create", <<>>, Create(vb), vb)

RenameCall ==
    \E newName \in RenameNames :
        LET r == Rename(vb, newName) IN Rendered("Rename", newName, r, r.vb)

SecureCall == Rendered("Secure", <<>>, Secure(vb), vb)

UnsecureCall == Rendered("Unsecure", <<>>, Unsecure(vb), vb)

ShowCall == Rendered("Show", <<>>, Ok(Show(vb)), vb)

DropCall == Rendered("Drop", <<>>, Drop(vb), vb)

BuilderNext ==
    \/ UdfCall
    \/ WithLanguage
    \/ WithDB
    \/ WithArguments
    \/ WithReplace
    \/ WithSecure
    \/ WithSchema
    \/ WithReturnType
    \/ WithBody
    \/ QualifiedNameCall
    \/ CreateCall
    \/ RenameCall
    \/ SecureCall
    \/ UnsecureCall
    \/ ShowCall
    \/ DropCall

BuilderSpec == BuilderInit /\ [][BuilderNext]_vars

(***************************************************************************)
(* Reading a rendered statement back                                       *)
(***************************************************************************)
Quoted(s) == <<DQ>> \o s \o <<DQ>>

\* TRUE iff sub occurs in s
HasSub(s, sub) ==
    \E i \in 1..(Len(s) - Len(sub) + 1) : SubSeq(s, i, i + Len(sub) - 1) = sub

\* position of the first occurrence of sub in s (0 if none)
IndexOf(s, sub) ==
    IF HasSub(s, sub)
    THEN CHOOSE i \in 1..(Len(s) - Len(sub) + 1) :
            /\ SubSeq(s, i, i + Len(sub) - 1) = sub
            /\ \A j \in 1..(i - 1) : SubSeq(s, j, j + Len(sub) - 1) # sub
    ELSE 0

\* the pieces of s between occurrences of ", "
RECURSIVE SplitList(_)
SplitList(s) ==
    IF s = <<>> THEN <<>>
    ELSE LET i == IndexOf(s, kwCommaSpace)
         IN  IF i = 0 THEN <<s>>
             ELSE <<SubSeq(s, 1, i - 1)>> \o SplitList(SubSeq(s, i + 2, Len(s)))

\* the text between the first "(" and the first ")" of a statement
SignatureOf(s) ==
    LET open == IndexOf(s, <<"(">>)
        close == IndexOf(s, <<")">>)
    IN  SubSeq(s, open + 1, close - 1)

\* number of occurrences of c in s that no backslash precedes
Unescaped(s, c) ==
    Cardinality({i \in 1..Len(s) : s[i] = c /\ (i = 1 \/ s[i - 1] # BS)})

(***************************************************************************)
(* Properties of the statement builder                                     *)
(***************************************************************************)
\* "<database>"."<schema>"."<name>", each component quoted on its own
Dotted(db, schema, name) ==
    Quoted(db) \o <<".">> \o Quoted(schema) \o <<".">> \o Quoted(name)

MissingScope == vb.db = <<>> \/ vb.schema = <<>>

\* C3: QualifiedName, and with it Create, Rename, Secure, Unsecure and Drop,
\* fails exactly when the database or the schema is empty, whatever the name
\* and the other fields; otherwise QualifiedName returns the three components,
\* each double-quoted, joined by dots.
C3_MissingScope ==
    op \in RenderOps =>
        /\ qerr <=> MissingScope
        /\ qerr => q = <<>>
        /\ ~qerr => HasSub(q, Dotted(vb.db, vb.schema, vb.name))
        /\ (op = "QualifiedName" /\ ~qerr) => q = Dotted(vb.db, vb.schema, vb.name)

C3_Witness ==
    /\ op = "Drop"
    /\ qerr
    /\ vb.db # <<>>
    /\ vb.schema = <<>>
    /\ vb.name # <<>>
    /\ vb.arguments # <<>>

Opt(flag, clause) == IF flag THEN clause ELSE <<>>

\* the argument list as "<name>" <type> pairs, and as types only
PairsOf(args) ==
    [i \in 1..Len(args) |->
        Quoted(EscapeString(args[i].name)) \o <<SP>> \o EscapeString(args[i]._type)]
TypesOf(args) == [i \in 1..Len(args) |-> EscapeString(args[i]._type)]

\* C4: Create renders CREATE, [OR REPLACE], [SECURE], FUNCTION <qualified name>,
\* (<args>), [RETURNS <type>], [LANGUAGE <lang>], AS $$ <body> $$ in this order;
\* each optional clause is present iff its flag is set or its value non-empty,
\* and the statement is a function of the builder's fields alone.
C4_CreateClauses ==
    (op = "Create" /\ ~qerr) =>
        /\ q = kwCreate
               \o Opt(vb.replace, kwOrReplace)
               \o Opt(vb.secure, kwSecure)
               \o kwFunction \o Dotted(vb.db, vb.schema, vb.name)
               \o <<SP, "(">> \o Join(PairsOf(vb.arguments), kwCommaSpace) \o <<")">>
               \o Opt(vb.returnType # <<>>, kwReturns \o EscapeString(vb.returnType))
               \o Opt(vb.language # <<>>, kwLanguage \o EscapeString(vb.language))
               \o kwAsOpen \o vb.body \o kwAsClose
        /\ HasSub(q, kwOrReplace) <=> vb.replace
        /\ HasSub(q, kwSecure) <=> vb.secure
        /\ HasSub(q, kwReturns) <=> vb.returnType # <<>>
        /\ HasSub(q, kwLanguage) <=> vb.language # <<>>
        /\ (vb.returnType # <<>> /\ vb.language # <<>>)
              => IndexOf(q, kwReturns) < IndexOf(q, kwLanguage)

C4_Witness ==
    /\ op = "Create"
    /\ ~qerr
    /\ vb.replace
    /\ vb.secure
    /\ vb.returnType # <<>>
    /\ vb.language # <<>>
    /\ Len(vb.arguments) = 2

\* C5: a successful Rename(newName) renders ALTER FUNCTION <old qualified name>
\* (<types>) RENAME TO <new qualified name> with the database and schema in
\* force at the call, and stores newName as the builder's name; nothing but a
\* successful Rename (or building a new builder) changes the name, so the old
\* name of each Rename is the new name of the previous one.
C5_Rename ==
    [][/\ (op' = "Rename" /\ ~qerr') =>
            /\ q' = kwAlterFunction \o Dotted(vb.db, vb.schema, vb.name)
                    \o <<SP, "(">> \o Join(TypesOf(vb.arguments), kwCommaSpace) \o <<")">>
                    \o kwRenameTo \o Dotted(vb.db, vb.schema, opArg')
            /\ vb' = [vb EXCEPT !.name = opArg']
       /\ (op' = "QualifiedName" /\ ~qerr') => q' = Dotted(vb.db, vb.schema, vb.name)
       /\ (op' # "Udf" /\ ~(op' = "Rename" /\ ~qerr')) => vb'.name = vb.name
      ]_vars

\* a second Rename in a row: "g" can only be the name left by a first Rename
C5_Witness ==
    /\ op = "Rename"
    /\ ~qerr
    /\ vb.name = <<"h">>
    /\ Len(vb.arguments) = 2
    /\ HasSub(q, kwAlterFunction \o Dotted(vb.db, vb.schema, <<"g">>))

\* C6: database, schema, name, argument names and types, return type and
\* language are escaped before interpolation, so the only double quotes without
\* a backslash in a statement of Create, Rename, Secure, Unsecure or Drop are
\* the delimiters of its quoted identifiers (the body holds none here).
C6_Escaped ==
    (op \in {"Create", "Rename", "Secure", "Unsecure", "Drop"} /\ ~qerr) =>
        Unescaped(q, DQ) =
            CASE op = "Create" -> 6 + 2 * Len(vb.arguments)
              [] op = "Rename" -> 12
              [] OTHER -> 6

\* C10: the signature clause holds one element per argument, in the order of
\* the argument list: "<name>" <type> pairs for Create, types only for Rename,
\* Secure, Unsecure and Drop; with no argument the clause is "()".
C10_ArgumentOrder ==
    (op \in {"Create", "Rename", "Secure", "Unsecure", "Drop"} /\ ~qerr) =>
        LET elems == SplitList(SignatureOf(q))
        IN  /\ HasSub(q, <<"(">>) /\ HasSub(q, <<")">>)
            /\ Len(elems) = Len(vb.arguments)
            /\ elems = IF op = "Create" THEN PairsOf(vb.arguments)
                       ELSE TypesOf(vb.arguments)
            /\ vb.arguments = <<>> => HasSub(q, <<SP, "(", ")">>)

C10_Witness ==
    /\ op = "Drop"
    /\ ~qerr
    /\ Len(vb.arguments) = 2
    /\ vb.arguments[1] # vb.arguments[2]

(***************************************************************************)
(* CRUD entry points                                                       *)
(***************************************************************************)
\* one entry of the trace: a statement rendered by the builder, or a statement
\* sent to the database by snowflake.Exec ("exec") or snowflake.QueryRow and
\* ScanUdf ("query"); result is "ok", "err" or, for a query, "norows"
Event(kind, stmt, result) == [kind |-> kind, stmt |-> stmt, result |-> result]

RenderEvent(r) == Event("render", r.str, IF r.err THEN "err" ELSE "ok")

Return(data, events, r) == [d |-> data, trace |-> events, ret |-> r]

\* ReadUdf that first asks whether the function exists, as UdfExists does
ReadUdf_Twice(data, scan, v) ==
    LET udfID == udfIDFromString(data.id)
        stmt == Show([Udf(udfID.id.Name) EXCEPT !.db = udfID.id.DatabaseName,
                                                !.schema = udfID.id.SchemaName])
        exists == <<Event("render", stmt, "ok"), Event("query", stmt, "ok")>>
        events == exists \o <<Event("render", stmt, "ok"), Event("query", stmt, scan)>>
    IN  IF udfID.err THEN Return(data, <<>>, "decode")
        ELSE IF scan = "norows" THEN Return([data EXCEPT !.id = <<>>], events, "nil")
        ELSE IF scan = "err" THEN Return(data, events, "scan")
        ELSE Return([data EXCEPT !.name = v.Name,
                                 !.is_secure = v.IsSecure,
                                 !.language = v.Language,
                                 !.schema = v.SchemaName,
                                 !.database = v.DatabaseName],
                    events, "nil")

\* ReadUdf that returns sql.ErrNoRows like any other scan error
ReadUdf_NoRowsIsError(data, scan, v) ==
    LET udfID == udfIDFromString(data.id)
        stmt == Show([Udf(udfID.id.Name) EXCEPT !.db = udfID.id.DatabaseName,
                                                !.schema = udfID.id.SchemaName])
        events == <<Event("render", stmt, "ok"), Event("query", stmt, scan)>>
    IN  IF udfID.err THEN Return(data, <<>>, "decode")
        ELSE IF scan \in {"norows", "err"} THEN Return(data, events, "scan")
        ELSE Return([data EXCEPT !.name = v.Name,
                                 !.is_secure = v.IsSecure,
                                 !.language = v.Language,
                                 !.schema = v.SchemaName,
                                 !.database = v.DatabaseName],
                    events, "nil")

\* ReadUdf(d, meta); scan is what QueryRow and ScanUdf give: "ok" with the
\* row v, "norows" for sql.ErrNoRows, "err" for any other error
ReadUdf(data, scan, v) ==
    LET udfID == udfIDFromString(data.id)
        stmt == Show([Udf(udfID.id.Name) EXCEPT !.db = udfID.id.DatabaseName,
                                                !.schema = udfID.id.SchemaName])
        events == <<Event("render", stmt, "ok"), Event("query", stmt, scan)>>
    IN  IF udfID.err THEN Return(data, <<>>, "decode")
        ELSE IF scan = "norows" THEN Return([data EXCEPT !.id = <<>>], events, "nil")
        ELSE IF scan = "err" THEN Return(data, events, "scan")
        ELSE Return([data EXCEPT !.name = v.Name,
                                 !.is_secure = v.IsSecure,
                                 !.language = v.Language,
                                 !.schema = v.SchemaName,
                                 !.database = v.DatabaseName],
                    events, "nil")

\* CreateUdf(d, meta); data holds the configuration, exec is the outcome of
\* snowflake.Exec, scan and v those of the read that ends the call
CreateUdf(data, exec, scan, v) ==
    LET b0 == [Udf(data.name) EXCEPT !.db = data.database,
                                     !.schema = data.schema,
                                     !.body = data.body,
                                     !.arguments = data.argument]
        b1 == IF data.or_replace THEN [b0 EXCEPT !.replace = TRUE] ELSE b0
        b2 == IF data.is_secure THEN [b1 EXCEPT !.secure = TRUE] ELSE b1
        b3 == IF data.return_type # <<>>
              THEN [b2 EXCEPT !.returnType = data.return_type] ELSE b2
        builder == IF data.language # <<>>
                   THEN [b3 EXCEPT !.language = data.language] ELSE b3
        r == Create(builder)
        udfID == [DatabaseName |-> data.database, SchemaName |-> data.schema,
                  Name |-> data.name]
        dataIDInput == String(udfID)
        read == ReadUdf([data EXCEPT !.id = dataIDInput.str], scan, v)
    IN  IF r.err THEN Return(data, <<RenderEvent(r)>>, "render")
        ELSE IF exec = "err"
             THEN Return(data, <<RenderEvent(r), Event("exec", r.str, "err")>>, "exec")
        ELSE IF dataIDInput.err
             THEN Return(data, <<RenderEvent(r), Event("exec", r.str, "ok")>>, "encode")
        ELSE Return(read.d,
                    <<RenderEvent(r), Event("exec", r.str, "ok")>> \o read.trace,
                    read.ret)

\* the statement of UpdateUdf's is_secure branch
SecureOrUnsecure(builder, secure) ==
    IF secure THEN Secure(builder) ELSE Unsecure(builder)

\* UpdateUdf that does not look at the error of the rename's Exec
UpdateUdf_IgnoreExecError(data, nameChange, secureChange, exec1, exec2, scan, v) ==
    LET udfID == udfIDFromString(data.id)
        dbName == udfID.id.DatabaseName
        schema == udfID.id.SchemaName
        builder == [Udf(udfID.id.Name) EXCEPT !.db = dbName, !.schema = schema]
        rn == Rename(builder, data.name)
        renameFailed == nameChange /\ rn.err
        ev1 == IF ~nameChange THEN <<>>
               ELSE IF rn.err THEN <<RenderEvent(rn)>>
               ELSE <<RenderEvent(rn), Event("exec", rn.str, exec1)>>
        b1 == IF nameChange THEN rn.vb ELSE builder
        d1 == IF nameChange /\ ~renameFailed
              THEN [data EXCEPT !.id = dbName \o <<"|">> \o schema \o <<"|">> \o data.name]
              ELSE data
        sc == SecureOrUnsecure(b1, data.is_secure)
        secureFailed == secureChange /\ (sc.err \/ exec2 = "err")
        ev2 == IF ~secureChange THEN <<>>
               ELSE IF sc.err THEN <<RenderEvent(sc)>>
               ELSE <<RenderEvent(sc), Event("exec", sc.str, exec2)>>
        read == ReadUdf(d1, scan, v)
    IN  IF udfID.err THEN Return(data, <<>>, "decode")
        ELSE IF renameFailed THEN Return(data, ev1, "render")
        ELSE IF secureFailed
             THEN Return(d1, ev1 \o ev2, IF sc.err THEN "render" ELSE "exec")
        ELSE Return(read.d, ev1 \o ev2 \o read.trace, read.ret)

\* UpdateUdf(d, meta); data holds the planned values, nameChange and
\* secureChange are d.HasChange("name") and d.HasChange("is_secure"), exec1 and
\* exec2 the outcomes of the rename and of the secure statement
UpdateUdf(data, nameChange, secureChange, exec1, exec2, scan, v) ==
    LET udfID == udfIDFromString(data.id)
        dbName == udfID.id.DatabaseName
        schema == udfID.id.SchemaName
        builder == [Udf(udfID.id.Name) EXCEPT !.db = dbName, !.schema = schema]
        rn == Rename(builder, data.name)
        renameFailed == nameChange /\ (rn.err \/ exec1 = "err")
        ev1 == IF ~nameChange THEN <<>>
               ELSE IF rn.err THEN <<RenderEvent(rn)>>
               ELSE <<RenderEvent(rn), Event("exec", rn.str, exec1)>>
        b1 == IF nameChange THEN rn.vb ELSE builder
        d1 == IF nameChange /\ ~renameFailed
              THEN [data EXCEPT !.id = dbName \o <<"|">> \o schema \o <<"|">> \o data.name]
              ELSE data
        sc == SecureOrUnsecure(b1, data.is_secure)
        secureFailed == secureChange /\ (sc.err \/ exec2 = "err")
        ev2 == IF ~secureChange THEN <<>>
               ELSE IF sc.err THEN <<RenderEvent(sc)>>
               ELSE <<RenderEvent(sc), Event("exec", sc.str, exec2)>>
        read == ReadUdf(d1, scan, v)
    IN  IF udfID.err THEN Return(data, <<>>, "decode")
        ELSE IF renameFailed
             THEN Return(data, ev1, IF rn.err THEN "render" ELSE "exec")
        ELSE IF secureFailed
             THEN Return(d1, ev1 \o ev2, IF sc.err THEN "render" ELSE "exec")
        ELSE Return(read.d, ev1 \o ev2 \o read.trace, read.ret)

\* DeleteUdf that attaches the resource's arguments to the builder, as CreateUdf does
DeleteUdf_WithArguments(data, exec) ==
    LET udfID == udfIDFromString(data.id)
        r == Drop([Udf(udfID.id.Name) EXCEPT !.db = udfID.id.DatabaseName,
                                             !.schema = udfID.id.SchemaName,
                                             !.arguments = data.argument])
    IN  IF udfID.err THEN Return(data, <<>>, "decode")
        ELSE IF r.err THEN Return(data, <<RenderEvent(r)>>, "render")
        ELSE IF exec = "err"
             THEN Return(data, <<RenderEvent(r), Event("exec", r.str, "err")>>, "exec")
        ELSE Return([data EXCEPT !.id = <<>>],
                    <<RenderEvent(r), Event("exec", r.str, "ok")>>, "nil")

\* DeleteUdf(d, meta)
DeleteUdf(data, exec) ==
    LET udfID == udfIDFromString(data.id)
        r == Drop([Udf(udfID.id.Name) EXCEPT !.db = udfID.id.DatabaseName,
                                             !.schema = udfID.id.SchemaName])
    IN  IF udfID.err THEN Return(data, <<>>, "decode")
        ELSE IF r.err THEN Return(data, <<RenderEvent(r)>>, "render")
        ELSE IF exec = "err"
             THEN Return(data, <<RenderEvent(r), Event("exec", r.str, "err")>>, "exec")
        ELSE Return([data EXCEPT !.id = <<>>],
                    <<RenderEvent(r), Event("exec", r.str, "ok")>>, "nil")

(***************************************************************************)
(* Specification of the resource                                           *)
(***************************************************************************)
ResNames == {<<"f">>, <<"g">>, <<"g", SP>>, <<"g", DQ>>}
ResDBs == {<<>>, <<"d">>}
ResSchemas == {<<"s">>}
ResArgLists == {<<>>, <<[name |-> <<"x">>, _type |-> <<"T">>]>>}

\* the configurations the host hands to CreateUdf
Configs ==
    [name : ResNames, database : ResDBs, schema : ResSchemas,
     or_replace : {FALSE}, is_secure : {FALSE}, return_type : {<<"V">>},
     language : {<<>>}, argument : ResArgLists, body : {<<"b">>}]

\* the rows SHOW FUNCTIONS may give back
Rows ==
    [Name : {<<"f">>, <<"g">>}, IsSecure : BOOLEAN, Language : {<<>>},
     SchemaName : ResSchemas, DatabaseName : {<<"d">>}]

ExecResults == {"ok", "err"}
NoRow ==
    [Name |-> <<>>, IsSecure |-> FALSE, Language |-> <<>>, SchemaName |-> <<>>,
     DatabaseName |-> <<>>]

\* what QueryRow and ScanUdf give: a row, sql.ErrNoRows or another error
ScanResults ==
    {[scan |-> "ok", v |-> v] : v \in Rows}
    \cup {[scan |-> "norows", v |-> NoRow], [scan |-> "err", v |-> NoRow]}

NoScan == [scan |-> "err", v |-> NoRow]

\* the outcomes of a database call the invocation does not reach are not
\* enumerated: one outcome, which the entry point never looks at, stands for all
If(reached, outcomes, unused) == IF reached THEN outcomes ELSE {unused}

ResourceInit ==
    /\ d = NoData
    /\ trace = <<>>
    /\ ret = "nil"
    /\ op = "none"
    /\ opArg = <<>>
    /\ vb = Udf(<<>>)
    /\ q = <<>>
    /\ qerr = FALSE
    /\ CodecIdle

\* an entry point returns: its name and input are recorded with its outcome
Returned(name, input, r) ==
    /\ d' = r.d
    /\ trace' = r.trace
    /\ ret' = r.ret
    /\ op' = name
    /\ opArg' = input
    /\ UNCHANGED <<codecVars, vb, q, qerr>>

WithConfig(data, cfg) ==
    [data EXCEPT !.name = cfg.name, !.database = cfg.database,
                 !.schema = cfg.schema, !.or_replace = cfg.or_replace,
                 !.is_secure = cfg.is_secure, !.return_type = cfg.return_type,
                 !.language = cfg.language, !.argument = cfg.argument,
                 !.body = cfg.body]

CreateUdfCall ==
    \E cfg \in Configs, exec \in ExecResults :
        \E s \in If(exec = "ok", ScanResults, NoScan) :
            Returned("CreateUdf", WithConfig(d, cfg),
                     CreateUdf(WithConfig(d, cfg), exec, s.scan, s.v))

ReadUdfCall ==
    \E s \in ScanResults : Returned("ReadUdf", d, ReadUdf(d, s.scan, s.v))

\* the host plans a name and an is_secure value; HasChange compares them
\* with the stored ones
UpdateUdfCall ==
    \E name \in ResNames, secure \in BOOLEAN :
        \E exec1 \in If(name # d.name, ExecResults, "ok") :
            \E exec2 \in If(secure # d.is_secure /\ exec1 = "ok", ExecResults, "ok") :
                \E s \in If(exec1 = "ok" /\ exec2 = "ok", ScanResults, NoScan) :
                    LET planned == [d EXCEPT !.name = name, !.is_secure = secure]
                    IN  Returned("UpdateUdf", planned,
                                 UpdateUdf(planned, name # d.name, secure # d.is_secure,
                                           exec1, exec2, s.scan, s.v))

DeleteUdfCall ==
    \E exec \in ExecResults : Returned("DeleteUdf", d, DeleteUdf(d, exec))

ResourceNext ==
    \/ CreateUdfCall
    \/ ReadUdfCall
    \/ UpdateUdfCall
    \/ DeleteUdfCall

ResourceSpec == ResourceInit /\ [][ResourceNext]_vars

(***************************************************************************)
(* Properties of the CRUD entry points                                     *)
(***************************************************************************)
EntryPoints == {"CreateUdf", "ReadUdf", "UpdateUdf", "DeleteUdf"}

Kinds(t) == [i \in 1..Len(t) |-> t[i].kind]

\* every database call directly follows the successful render of the statement
\* it sends, and nothing follows a failed render or call
Sequential(t) ==
    /\ \A i \in 1..Len(t) :
          IF i % 2 = 1 THEN t[i].kind = "render"
          ELSE /\ t[i].kind \in {"exec", "query"}
               /\ t[i].stmt = t[i - 1].stmt
    /\ \A i \in 1..(Len(t) - 1) : t[i].result = "ok"

IsPrefix(s, t) == Len(s) <= Len(t) /\ s = SubSeq(t, 1, Len(s))

\* C7 as stated: an invocation that returns without error has rendered exactly
\* one statement and made exactly one database call.
C7_OneCall ==
    (op \in EntryPoints /\ ret = "nil") =>
        /\ Len(trace) = 2
        /\ trace[1].kind = "render"
        /\ trace[2].kind \in {"exec", "query"}

\* C7 amended: the calls of an invocation are issued one after another, each
\* right after the render of its statement, and none after a failure; ReadUdf
\* issues at most one query, DeleteUdf at most one execute, CreateUdf one
\* execute then one query, UpdateUdf up to two executes then one query; an
\* invocation that returns without error has issued all the calls of its path.
C7_CallsPerEntryPoint ==
    op \in EntryPoints =>
        /\ Sequential(trace)
        /\ op = "ReadUdf" => IsPrefix(Kinds(trace), <<"render", "query">>)
        /\ op = "DeleteUdf" => IsPrefix(Kinds(trace), <<"render", "exec">>)
        /\ op = "CreateUdf" =>
              IsPrefix(Kinds(trace), <<"render", "exec", "render", "query">>)
        /\ op = "UpdateUdf" =>
              \/ IsPrefix(Kinds(trace), <<"render", "query">>)
              \/ IsPrefix(Kinds(trace), <<"render", "exec", "render", "query">>)
              \/ IsPrefix(Kinds(trace),
                          <<"render", "exec", "render", "exec", "render", "query">>)
        /\ ret = "nil" =>
              /\ Len(trace) \in CASE op = "CreateUdf" -> {4}
                                  [] op = "UpdateUdf" -> {2, 4, 6}
                                  [] OTHER -> {2}
              /\ trace[Len(trace)].kind = IF op = "DeleteUdf" THEN "exec" ELSE "query"

C7_Witness ==
    /\ op = "UpdateUdf"
    /\ ret = "nil"
    /\ Len(trace) = 6

\* the SHOW statement ReadUdf renders for an identifier
ShowOf(id) ==
    LET udfID == udfIDFromString(id).id
    IN  kwShowLike \o udfID.Name \o kwInSchema \o Quoted(udfID.DatabaseName)
        \o <<".">> \o Quoted(udfID.SchemaName)

\* C8: when the SHOW query of ReadUdf, called directly or at the end of
\* CreateUdf or UpdateUdf, gives no row, the call returns no error and the
\* identifier becomes empty while every other field keeps the value it had;
\* when the scan fails otherwise the error is returned and the identifier
\* stays the one the query was rendered from.
C8_NotFound ==
    [][(op' \in {"ReadUdf", "CreateUdf", "UpdateUdf"} /\ trace' # <<>>) =>
          LET last == trace'[Len(trace')]
          IN  /\ (last.kind = "query" /\ last.result = "norows") =>
                    /\ ret' = "nil"
                    /\ d' = [opArg' EXCEPT !.id = <<>>]
              /\ (last.kind = "query" /\ last.result = "err") =>
                    /\ ret' = "scan"
                    /\ d' = [opArg' EXCEPT !.id = d'.id]
                    /\ ~udfIDFromString(d'.id).err
                    /\ last.stmt = ShowOf(d'.id)
                    /\ op' = "ReadUdf" => d' = d
      ]_vars

C8_Witness ==
    /\ op = "CreateUdf"
    /\ ret = "nil"
    /\ Len(trace) = 4
    /\ trace[4].result = "norows"
    /\ d.id = <<>>
    /\ d.name # <<>>

\* C9: a failed execute ends the invocation with an error: it is the last
\* event of the trace, so the statement is not sent again and no later
\* statement or read query is issued.
C9_NoRetry ==
    op \in {"CreateUdf", "UpdateUdf", "DeleteUdf"} =>
        \A i \in 1..Len(trace) :
            (trace[i].kind = "exec" /\ trace[i].result = "err") =>
                /\ i = Len(trace)
                /\ ret = "exec"
                /\ \A j \in 1..(i - 1) :
                      trace[j].kind = "exec" => trace[j].stmt # trace[i].stmt

\* the rename of an update that also changes is_secure fails
C9_Witness ==
    /\ op = "UpdateUdf"
    /\ ret = "exec"
    /\ Len(trace) = 2
    /\ HasSub(trace[2].stmt, kwRenameTo)
    /\ trace[2].result = "err"

(***************************************************************************)
(* Secure and Unsecure                                                     *)
(***************************************************************************)
\* s without its last n characters
DropLast(s, n) == SubSeq(s, 1, Len(s) - n)

\* C11: Secure and Unsecure render ALTER FUNCTION <qualified name> (<types>)
\* followed by SET SECURE or UNSET SECURE; called one after the other on the
\* same builder they fail together or give statements that differ in that
\* last token only, and neither changes a field of the builder.
C11_SecureUnsecure ==
    [][/\ op' \in {"Secure", "Unsecure"} => vb' = vb
       /\ (op' \in {"Secure", "Unsecure"} /\ ~qerr') =>
             q' = kwAlterFunction \o Dotted(vb.db, vb.schema, vb.name)
                  \o <<SP, "(">> \o Join(TypesOf(vb.arguments), kwCommaSpace) \o <<")">>
                  \o (IF op' = "Secure" THEN kwSetSecure ELSE kwUnsetSecure)
       /\ (op = "Secure" /\ op' = "Unsecure") =>
             /\ qerr' = qerr
             /\ ~qerr => DropLast(q', Len(kwUnsetSecure)) = DropLast(q, Len(kwSetSecure))
      ]_vars

\* Unsecure on a builder whose secure flag is set: the flag stays set
C11_Witness ==
    /\ op = "Unsecure"
    /\ ~qerr
    /\ vb.secure
    /\ Len(vb.arguments) = 2

(***************************************************************************)
(* Specification of the read of an imported resource                       *)
(***************************************************************************)
ImportChars == {"a", pipeIDDelimiter, SQ, DQ}

\* the identifiers ImportStatePassthroughContext may store: any string
ImportIDs == StrsUpTo(ImportChars, MaxImportLen)

ImportInit ==
    /\ \E id \in ImportIDs : d = [NoData EXCEPT !.id = id]
    /\ trace = <<>>
    /\ ret = "nil"
    /\ op = "none"
    /\ BuilderIdle
    /\ CodecIdle

ImportNext == ReadUdfCall

ImportSpec == ImportInit /\ [][ImportNext]_vars

\* C12: Show renders SHOW FUNCTIONS LIKE '<name>' IN SCHEMA "<database>"."<schema>"
\* with the three values verbatim and never fails, also with an empty database
\* or schema: ReadUdf renders and sends that query for every identifier that
\* decodes to one record of three fields, and for no other.
C12_ShowVerbatim ==
    op = "ReadUdf" =>
        LET r == ReadAll(opArg.id)
            three == ~r.err /\ Len(r.lines) = 1 /\ Len(r.lines[1]) = 3
        IN  /\ three <=> trace # <<>>
            /\ three =>
                  /\ Kinds(trace) = <<"render", "query">>
                  /\ trace[1].result = "ok"
                  /\ trace[1].stmt = kwShowLike \o r.lines[1][3] \o kwInSchema
                                     \o Quoted(r.lines[1][1]) \o <<".">>
                                     \o Quoted(r.lines[1][2])
                  /\ trace[2].stmt = trace[1].stmt

\* a query for an identifier with an empty database and a quote in the name
C12_Witness ==
    /\ op = "ReadUdf"
    /\ Len(trace) = 2
    /\ trace[2].kind = "query"
    /\ udfIDFromString(opArg.id).id.DatabaseName = <<>>
    /\ Contains(udfIDFromString(opArg.id).id.Name, SQ)

(***************************************************************************)
(* The persisted identifier                                                *)
(***************************************************************************)
\* id decodes to exactly the triple (db, schema, name)
Decodes(id, db, schema, name) ==
    LET r == udfIDFromString(id)
    IN  ~r.err /\ r.id = [DatabaseName |-> db, SchemaName |-> schema, Name |-> name]

\* the execute of the invocation's i-th statement succeeded
ExecOk(i) ==
    /\ Len(trace) >= 2 * i
    /\ trace[2 * i].kind = "exec"
    /\ trace[2 * i].result = "ok"

\* C13: a non-empty identifier decodes to the triple of the function the
\* resource stands for: the one CreateUdf wrote decodes to the database, schema
\* and name it created, the one UpdateUdf wrote after a rename to the old
\* database and schema and the new name; CreateUdf changes the identifier only
\* after its CREATE succeeded and DeleteUdf only after its DROP succeeded.
C13_IdentifierDecodes ==
    /\ (op = "CreateUdf" /\ d.id # <<>>) =>
          Decodes(d.id, opArg.database, opArg.schema, opArg.name)
    /\ (op = "UpdateUdf" /\ ExecOk(1) /\ HasSub(trace[2].stmt, kwRenameTo)
            /\ d.id # <<>>) =>
          LET old == udfIDFromString(opArg.id).id
          IN  Decodes(d.id, old.DatabaseName, old.SchemaName, opArg.name)
    /\ (op \in {"CreateUdf", "DeleteUdf"} /\ d.id # opArg.id) => ExecOk(1)

(***************************************************************************)
(* Order of the statements of UpdateUdf                                    *)
(***************************************************************************)
\* C14: an UpdateUdf that renames and changes is_secure sends the rename, then
\* SET or UNSET SECURE on the new qualified name, then the SHOW query of the
\* identifier rewritten with the new name; when the rename's execute fails
\* nothing else is sent and the identifier is the one the call started with.
C14_UpdateOrder ==
    (op = "UpdateUdf" /\ Len(trace) >= 2 /\ HasSub(trace[2].stmt, kwRenameTo)) =>
        LET old == udfIDFromString(opArg.id).id
            newName == Dotted(old.DatabaseName, old.SchemaName, opArg.name)
        IN  /\ trace[2].result = "err" =>
                  /\ Len(trace) = 2
                  /\ ret = "exec"
                  /\ d.id = opArg.id
            /\ (trace[2].result = "ok" /\ Len(trace) >= 3
                    /\ HasSub(trace[3].stmt, kwSecure)) =>
                  /\ trace[3].stmt = kwAlterFunction \o newName \o <<SP, "(", ")">>
                                     \o (IF opArg.is_secure THEN kwSetSecure
                                         ELSE kwUnsetSecure)
                  /\ ExecOk(2) =>
                        /\ Kinds(trace) = <<"render", "exec", "render", "exec",
                                            "render", "query">>
                        /\ trace[6].stmt = kwShowLike \o opArg.name \o kwInSchema
                                           \o Quoted(old.DatabaseName) \o <<".">>
                                           \o Quoted(old.SchemaName)

(***************************************************************************)
(* Signature clause of the statements of UpdateUdf and DeleteUdf           *)
(***************************************************************************)
StartsWith(s, prefix) == Len(prefix) <= Len(s) /\ SubSeq(s, 1, Len(prefix)) = prefix

\* C15: every ALTER FUNCTION and DROP FUNCTION statement UpdateUdf and
\* DeleteUdf render or send has the empty signature clause "()", whatever the
\* argument list of the resource.
C15_EmptySignature ==
    op \in {"UpdateUdf", "DeleteUdf"} =>
        \A i \in 1..Len(trace) :
            (trace[i].result = "ok" /\ trace[i].kind \in {"render", "exec"}) =>
                /\ \/ StartsWith(trace[i].stmt, kwAlterFunction)
                   \/ StartsWith(trace[i].stmt, kwDropFunction)
                   \/ StartsWith(trace[i].stmt, kwShowLike)
                /\ ~StartsWith(trace[i].stmt, kwShowLike) =>
                      /\ HasSub(trace[i].stmt, <<DQ, SP, "(", ")">>)
                      /\ SignatureOf(trace[i].stmt) = <<>>

\* the DROP of a function that was created with an argument
C15_Witness ==
    /\ op = "DeleteUdf"
    /\ ExecOk(1)
    /\ StartsWith(trace[2].stmt, kwDropFunction)
    /\ opArg.argument # <<>>

====
